---------------------------- MODULE Spec2Model ----------------------------
(***************************************************************************)
(* A model of diskscan's command line front end, cli/cli.c:                *)
(*   - str_to_scan_size: the parser of the --size argument,                *)
(*   - parse_args:       the getopt_long loop and its final checks,        *)
(*   - diskscan_cli:     open -> logs -> scan -> logs -> close, with the   *)
(*                       SIGINT/SIGTERM handler running asynchronously,    *)
(*   - print_latency:    the ASCII latency graph.                          *)
(*                                                                         *)
(* Strings are sequences of one-character strings, so that the parsers are *)
(* computed character by character as the C code does.  The scan engine    *)
(* (disk_open, disk_scan, disk_scan_stop, disk_close and the data_log      *)
(* functions) lives in the library, outside cli.c; it is modelled from its *)
(* documented interface.                                                   *)
(***************************************************************************)
EXTENDS Integers, Sequences, FiniteSets, TLC

(***************************************************************************)
(* Bounds of the model.                                                    *)
(***************************************************************************)
\* longest --size string explored by SpecSize
MaxLen == 5
\* most argv elements (after argv[0]) handed to parse_args
MaxArgs == 3
\* most signals delivered during one run
MaxSignals == 2
\* number of I/O operations of a complete scan
ScanParts == 2
\* most buckets of a latency graph
MaxBuckets == 2

(***************************************************************************)
(* C integers.  TLC's integers are 32 bit, a C long on LP64 is 64 bit: a   *)
(* long is kept as two limbs, value = hi * 2^20 + lo with 0 <= lo < 2^20.  *)
(* Within the bounds above every long stays below 2^44, far from LONG_MAX, *)
(* so strtol never sets ERANGE and val *= factor never overflows.          *)
(***************************************************************************)
Limb == 1024 * 1024

Big(hi, lo) == [hi |-> hi + (lo \div Limb), lo |-> lo % Limb]

BigOfInt(n) == Big(0, n)

BigIsZero(v) == v.hi = 0 /\ v.lo = 0

\* v * k + d for 0 <= k <= 1024, 0 <= d < 1024
BigMulAdd(v, k, d) == Big(v.hi * k, v.lo * k + d)

\* v * factor for the three factors of str_to_scan_size
BigMul(v, factor) ==
    IF factor = 1024 * 1024 THEN BigMulAdd(BigMulAdd(v, 1024, 0), 1024, 0)
    ELSE BigMulAdd(v, factor, 0)

BigLeq(a, b) == a.hi < b.hi \/ (a.hi = b.hi /\ a.lo <= b.lo)

\* (unsigned)val: the low 32 bits, 2^32 = 4096 * 2^20
ToUnsigned(v) == [hi |-> v.hi % 4096, lo |-> v.lo]

\* 32*1024*1024, the limit of line 201
MaxTransfer == 32 * 1024 * 1024

\* an unsigned known to be at most MaxTransfer, as a TLC integer
UnsignedToInt(u) == u.hi * Limb + u.lo

(***************************************************************************)
(* strtol(str, &endptr, 0)                                                 *)
(***************************************************************************)
DigitOf(c) ==
    CASE c = "0" -> 0 [] c = "1" -> 1 [] c = "2" -> 2 [] c = "3" -> 3
      [] c = "4" -> 4 [] c = "5" -> 5 [] c = "6" -> 6 [] c = "7" -> 7
      [] c = "8" -> 8 [] c = "9" -> 9
      [] c \in {"a", "A"} -> 10 [] c \in {"b", "B"} -> 11
      [] c \in {"c", "C"} -> 12 [] c \in {"d", "D"} -> 13
      [] c \in {"e", "E"} -> 14 [] c \in {"f", "F"} -> 15
      [] OTHER -> 99

IsDigitIn(s, base) == s /= <<>> /\ DigitOf(Head(s)) < base

RECURSIVE SkipSpace(_)
SkipSpace(s) == IF s /= <<>> /\ Head(s) = " " THEN SkipSpace(Tail(s)) ELSE s

RECURSIVE ParseDigits(_, _, _)
ParseDigits(s, base, acc) ==
    IF IsDigitIn(s, base)
    THEN ParseDigits(Tail(s), base, BigMulAdd(acc, base, DigitOf(Head(s))))
    ELSE [val |-> acc, rest |-> s]

\* the result of strtol: the sign, the magnitude and what endptr points at.
\* Without any digit the value is 0 and endptr is str itself.
strtol(str) ==
    LET s0   == SkipSpace(str)
        neg  == s0 /= <<>> /\ Head(s0) = "-"
        s1   == IF s0 /= <<>> /\ Head(s0) \in {"-", "+"} THEN Tail(s0) ELSE s0
        hex  == /\ Len(s1) >= 3
                /\ s1[1] = "0"
                /\ s1[2] \in {"x", "X"}
                /\ DigitOf(s1[3]) < 16
        base == IF hex THEN 16
                ELSE IF s1 /= <<>> /\ Head(s1) = "0" THEN 8
                ELSE 10
        s2   == IF hex THEN Tail(Tail(s1)) ELSE s1
        r    == ParseDigits(s2, base, BigOfInt(0))
    IN  IF ~IsDigitIn(s2, base)
        THEN [neg |-> FALSE, mag |-> BigOfInt(0), endptr |-> str]
        ELSE [neg |-> neg /\ ~BigIsZero(r.val), mag |-> r.val, endptr |-> r.rest]

(***************************************************************************)
(* str_to_scan_size, in the three stages of its body.                      *)
(***************************************************************************)
\* lines 176-181: val <= 0 is refused (errno stays 0 within the bounds)
ScanSizeParseFails(r) == r.neg \/ BigIsZero(r.mag)

\* lines 183-198: the factor chosen by strcmp on endptr; 0 for "unknown suffix"
SuffixFactor(endptr) ==
    IF endptr = <<>> THEN 1
    ELSE IF endptr = <<"b">> \/ endptr = <<"B">> THEN 1
    ELSE IF endptr = <<"k">> \/ endptr = <<"K">> THEN 1024
    ELSE IF endptr = <<"m">> \/ endptr = <<"M">> THEN 1024 * 1024
    ELSE 0

\* lines 200-206: retval = (unsigned)val is compared with 32 MiB and
\* (unsigned)val is returned
ScanSizeResult(val) ==
    LET retval == ToUnsigned(val)
    IN  IF ~BigLeq(retval, BigOfInt(MaxTransfer)) THEN 0
        ELSE UnsignedToInt(ToUnsigned(val))

str_to_scan_size(str) ==
    LET r == strtol(str)
    IN  IF ScanSizeParseFails(r) THEN 0
        ELSE IF SuffixFactor(r.endptr) = 0 THEN 0
        ELSE ScanSizeResult(BigMul(r.mag, SuffixFactor(r.endptr)))


(***************************************************************************)
(* State.                                                                  *)
(*   sz       the activation of str_to_scan_size checked on its own        *)
(*   pl       the activation of print_latency                              *)
(*   pc       the position of diskscan_cli ("killed": the process was      *)
(*            terminated by a signal's default disposition)                *)
(*   pa       parse_args' locals: unknown, the static allowed_mount, the   *)
(*            non-option argv elements getopt left for the end (argv from  *)
(*            optind on), the number of argv elements consumed, and        *)
(*            whether some --size value resolved to 0                      *)
(*   opts     options_t opts                                               *)
(*   ret      the value diskscan_cli returned, -1 before it returns        *)
(*   handlers the signals whose handler is diskscan_cli_signal             *)
(*   disk     the static disk_t: the engine's handle                       *)
(*   calls    the calls made into the library so far, in order             *)
(*   sigs     for each signal delivered so far, the position it arrived at *)
(***************************************************************************)
VARIABLES sz, pl, pc, pa, opts, ret, handlers, disk, calls, sigs

vars == <<sz, pl, pc, pa, opts, ret, handlers, disk, calls, sigs>>

cliVars == <<pc, pa, opts, ret, handlers, disk, calls, sigs>>

\* a char * that is NULL, or points at the string s
NULL == <<>>

Ptr(s) == <<s>>

(***************************************************************************)
(* str_to_scan_size step by step.                                          *)
(***************************************************************************)
\* the characters --size strings are made of
SizeChars == {"0", "1", "4", "7", "9", "K", "M", "B", "-", "x"}

SizeStrings == UNION {[1..n -> SizeChars] : n \in 0..MaxLen}

SzIdle == [pc |-> "idle", str |-> <<>>, val |-> BigOfInt(0), endptr |-> <<>>, ret |-> 0]

\* lines 176-181
SizeStrtol ==
    /\ sz.pc = "strtol"
    /\ LET r == strtol(sz.str)
       IN  sz' = IF ScanSizeParseFails(r)
                 THEN [sz EXCEPT !.pc = "return", !.ret = 0]
                 ELSE [sz EXCEPT !.pc = "suffix", !.val = r.mag, !.endptr = r.endptr]
    /\ UNCHANGED <<pl, cliVars>>

\* lines 183-198
SizeSuffix ==
    /\ sz.pc = "suffix"
    /\ sz' = IF SuffixFactor(sz.endptr) = 0
             THEN [sz EXCEPT !.pc = "return", !.ret = 0]
             ELSE [sz EXCEPT !.pc = "truncate",
                             !.val = BigMul(sz.val, SuffixFactor(sz.endptr))]
    /\ UNCHANGED <<pl, cliVars>>

\* lines 200-206
SizeTruncate ==
    /\ sz.pc = "truncate"
    /\ sz' = [sz EXCEPT !.pc = "return", !.ret = ScanSizeResult(sz.val)]
    /\ UNCHANGED <<pl, cliVars>>

(***************************************************************************)
(* parse_args.  One argv element is an option together with its argument,  *)
(* or a non-option.  getopt_long hands the options over in order and moves *)
(* the non-options to the end of argv, so that after the loop argv[optind] *)
(* is the first non-option and argc - optind their number.                 *)
(***************************************************************************)
\* the --size arguments used on the command line
SizeArgs ==
    { <<"1", "2", "8", "K">>, <<"4", "0", "M">>, <<"1", "0", "0", "0">>,
      <<"0">>, <<"4", "0", "9", "7", "M">> }

Opt(kind, arg) == [kind |-> kind, arg |-> arg]

\* the options getopt_long can return; kind "?" is an option it does not
\* know, or one whose required argument is missing
ArgvOptions ==
    { Opt("v", <<>>), Opt("f", <<>>),
      Opt("s", <<"s", "e", "q">>), Opt("s", <<"z">>),
      Opt("o", <<"o">>), Opt("r", <<"r">>),
      Opt("S", <<"8">>), Opt("E", <<"9">>),
      Opt("force-mounted", <<>>), Opt("force-mounted-rw", <<>>),
      Opt("?", <<>>) }
    \cup { Opt("e", a) : a \in SizeArgs }

\* the non-option argv elements: device paths
ArgvPaths == { <<"a">>, <<"b">> }

\* str_to_scan_mode of the library
str_to_scan_mode(str) ==
    IF str = <<"s", "e", "q">> THEN "SCAN_MODE_SEQ"
    ELSE IF str = <<"r", "a", "n", "d", "o", "m">> THEN "SCAN_MODE_RANDOM"
    ELSE "SCAN_MODE_UNKNOWN"

\* atoll on the sector arguments, which are below 2^20 here
atoll(str) ==
    LET s0 == SkipSpace(str)
        s1 == IF s0 /= <<>> /\ Head(s0) \in {"-", "+"} THEN Tail(s0) ELSE s0
        v  == UnsignedToInt(ParseDigits(s1, 10, BigOfInt(0)).val)
    IN  IF s0 /= <<>> /\ Head(s0) = "-" THEN 0 - v ELSE v

\* lines 237-274: the switch on getopt_long's result
OptionCase(o, a) ==
    CASE a.kind = "v" -> [o EXCEPT !.verbose = @ + 1]
      [] a.kind = "f" -> [o EXCEPT !.fix = 1]
      [] a.kind = "s" ->
            [o EXCEPT !.mode = IF str_to_scan_mode(a.arg) = "SCAN_MODE_UNKNOWN"
                               THEN "SCAN_MODE_SEQ"
                               ELSE str_to_scan_mode(a.arg)]
      [] a.kind = "e" -> [o EXCEPT !.scan_size = str_to_scan_size(a.arg)]
      [] a.kind = "o" -> [o EXCEPT !.data_log_name = Ptr(a.arg)]
      [] a.kind = "r" -> [o EXCEPT !.data_log_raw_name = Ptr(a.arg)]
      [] a.kind = "S" -> [o EXCEPT !.start_sector = atoll(a.arg)]
      [] a.kind = "E" -> [o EXCEPT !.end_sector = atoll(a.arg)]
      [] OTHER -> o

\* lines 228-229: the two long options that store into the static allowed_mount
FlagCase(m, a) ==
    CASE a.kind = "force-mounted" -> "DISK_MOUNTED_RO"
      [] a.kind = "force-mounted-rw" -> "DISK_MOUNTED_RW"
      [] OTHER -> m

\* one turn of the while loop in which getopt_long returns an option
GetoptOption ==
    /\ pc = "parse_args"
    /\ pa.n < MaxArgs
    /\ \E a \in ArgvOptions :
          /\ opts' = OptionCase(opts, a)
          /\ pa' = [pa EXCEPT !.n = @ + 1,
                              !.unknown = @ \/ a.kind = "?",
                              !.allowed_mount = FlagCase(@, a),
                              !.zero_size = @ \/ (a.kind = "e" /\
                                                  str_to_scan_size(a.arg) = 0)]
    /\ UNCHANGED <<sz, pl, pc, ret, handlers, disk, calls, sigs>>

\* getopt_long steps over a non-option and leaves it for the end of argv
GetoptNonOption ==
    /\ pc = "parse_args"
    /\ pa.n < MaxArgs
    /\ \E path \in ArgvPaths :
          pa' = [pa EXCEPT !.n = @ + 1, !.nonopts = Append(@, path)]
    /\ UNCHANGED <<sz, pl, pc, opts, ret, handlers, disk, calls, sigs>>

\* a parse_args without the check of unknown after the loop
ParseArgsResult_NoUnknown(p, o) ==
    IF Len(p.nonopts) = 0 THEN 1
    ELSE IF Len(p.nonopts) > 1 THEN 1
    ELSE IF o.scan_size = 0 THEN 1
    ELSE 0

\* lines 277-294: the checks after the loop; the value parse_args returns
ParseArgsResult(p, o) ==
    IF Len(p.nonopts) = 0 THEN 1
    ELSE IF Len(p.nonopts) > 1 THEN 1
    ELSE IF p.unknown THEN 1
    ELSE IF o.scan_size = 0 THEN 1
    ELSE 0

\* getopt_long returns -1; lines 277-298 of parse_args, then lines 333-337
\* of diskscan_cli
ParseArgsEnd ==
    /\ pc = "parse_args"
    /\ IF ParseArgsResult(pa, opts) /= 0
       THEN /\ pc' = "done"
            /\ ret' = 1
            /\ opts' = opts
       ELSE /\ pc' = "sigaction_int"
            /\ ret' = ret
            /\ opts' = [opts EXCEPT !.disk_path = Ptr(pa.nonopts[1]),
                                    !.allowed_mount = pa.allowed_mount]
    /\ UNCHANGED <<sz, pl, pa, handlers, disk, calls, sigs>>

(***************************************************************************)
(* The library behind diskscan.h, from its interface: the handle owns the  *)
(* open device, the two logs, the scan position and the cooperative stop   *)
(* flag.  A stop request only sets the flag; nothing resets it.  disk_scan *)
(* looks at the flag at every iteration boundary and then gives up with a  *)
(* failure.                                                                *)
(***************************************************************************)
DiskInit == [open |-> FALSE, stop |-> FALSE, raw |-> FALSE, log |-> FALSE, pos |-> 0]

disk_open(d) == [d EXCEPT !.open = TRUE, !.pos = 0]

disk_scan_stop(d) == [d EXCEPT !.stop = TRUE]

disk_close(d) == [d EXCEPT !.open = FALSE]

Call(fn, ok, arg) == [fn |-> fn, ok |-> ok, arg |-> arg]

(***************************************************************************)
(* Signals.                                                                *)
(***************************************************************************)
Signals == {"SIGINT", "SIGTERM"}

\* a handler that forgets to call disk_scan_stop
diskscan_cli_signal_Noop(d) == d

\* lines 308-311
diskscan_cli_signal(d) == disk_scan_stop(d)

Running == pc \notin {"done", "killed"}

\* a signal whose handler is installed: the handler runs between two steps
\* of the main flow
SignalHandled ==
    /\ Running
    /\ Len(sigs) < MaxSignals
    /\ \E sig \in handlers :
          /\ disk' = diskscan_cli_signal(disk)
          /\ sigs' = Append(sigs, pc)
    /\ UNCHANGED <<sz, pl, pc, pa, opts, ret, handlers, calls>>

\* a signal still at its default disposition terminates the process
SignalDefault ==
    /\ Running
    /\ Len(sigs) < MaxSignals
    /\ \E sig \in Signals \ handlers :
          /\ pc' = "killed"
          /\ sigs' = Append(sigs, pc)
    /\ UNCHANGED <<sz, pl, pa, opts, ret, handlers, disk, calls>>

\* line 320
SigactionInt ==
    /\ pc = "sigaction_int"
    /\ handlers' = handlers \cup {"SIGINT"}
    /\ pc' = "sigaction_term"
    /\ UNCHANGED <<sz, pl, pa, opts, ret, disk, calls, sigs>>

\* line 321
SigactionTerm ==
    /\ pc = "sigaction_term"
    /\ handlers' = handlers \cup {"SIGTERM"}
    /\ pc' = "disk_open"
    /\ UNCHANGED <<sz, pl, pa, opts, ret, disk, calls, sigs>>

(***************************************************************************)
(* diskscan_cli from disk_open on.                                         *)
(***************************************************************************)
\* lines 341-342
DiskOpen ==
    /\ pc = "disk_open"
    /\ \E ok \in BOOLEAN :
          /\ calls' = Append(calls, Call("disk_open", ok, 0))
          /\ IF ok
             THEN /\ disk' = disk_open(disk)
                  /\ pc' = "raw_start"
                  /\ ret' = ret
             ELSE /\ disk' = disk
                  /\ pc' = "done"
                  /\ ret' = 1
    /\ UNCHANGED <<sz, pl, pa, opts, handlers, sigs>>

\* lines 349-350: the result of data_log_raw_start is not looked at
RawLogStart ==
    /\ pc = "raw_start"
    /\ IF opts.data_log_raw_name /= NULL
       THEN \E ok \in BOOLEAN :
               /\ calls' = Append(calls, Call("data_log_raw_start", ok, 0))
               /\ disk' = [disk EXCEPT !.raw = ok]
       ELSE UNCHANGED <<calls, disk>>
    /\ pc' = "log_start"
    /\ UNCHANGED <<sz, pl, pa, opts, ret, handlers, sigs>>

\* lines 351-352: the result of data_log_start is not looked at
LogStart ==
    /\ pc = "log_start"
    /\ IF opts.data_log_name /= NULL
       THEN \E ok \in BOOLEAN :
               /\ calls' = Append(calls, Call("data_log_start", ok, 0))
               /\ disk' = [disk EXCEPT !.log = ok]
       ELSE UNCHANGED <<calls, disk>>
    /\ pc' = "disk_scan_call"
    /\ UNCHANGED <<sz, pl, pa, opts, ret, handlers, sigs>>

\* lines 353-354: ret = 0 and the call of disk_scan with opts.scan_size
DiskScanCall ==
    /\ pc = "disk_scan_call"
    /\ ret' = 0
    /\ calls' = Append(calls, Call("disk_scan", TRUE, opts.scan_size))
    /\ disk' = [disk EXCEPT !.pos = 0]
    /\ pc' = "disk_scan"
    /\ UNCHANGED <<sz, pl, pa, opts, handlers, sigs>>

\* a diskscan_cli that drops disk_scan's result
ScanRet_Ignored(rc, r) == r

\* lines 354-355: what diskscan_cli makes of disk_scan's result rc
ScanRet(rc, r) == IF rc /= 0 THEN 1 ELSE r

\* disk_scan is back with rc
DiskScanReturn(rc) ==
    /\ calls' = Append(calls, Call("disk_scan_return", rc = 0, rc))
    /\ ret' = ScanRet(rc, ret)
    /\ pc' = "raw_end"

\* the engine: one I/O operation, the stop flag not being set
DiskScanIo ==
    /\ pc = "disk_scan"
    /\ ~disk.stop
    /\ disk.pos < ScanParts
    /\ disk' = [disk EXCEPT !.pos = @ + 1]
    /\ UNCHANGED <<sz, pl, pc, pa, opts, ret, handlers, calls, sigs>>

\* the engine: the stop flag is seen at an iteration boundary
DiskScanStopped ==
    /\ pc = "disk_scan"
    /\ disk.stop
    /\ DiskScanReturn(1)
    /\ UNCHANGED <<sz, pl, pa, opts, handlers, disk, sigs>>

\* the engine: the scan ran to its end, or gave up on an error of its own
DiskScanFinish ==
    /\ pc = "disk_scan"
    /\ ~disk.stop
    /\ \E rc \in {0, 1} :
          /\ rc = 0 => disk.pos = ScanParts
          /\ DiskScanReturn(rc)
    /\ UNCHANGED <<sz, pl, pa, opts, handlers, disk, sigs>>

\* lines 356-357
RawLogEnd ==
    /\ pc = "raw_end"
    /\ IF opts.data_log_raw_name /= NULL
       THEN /\ calls' = Append(calls, Call("data_log_raw_end", TRUE, 0))
            /\ disk' = [disk EXCEPT !.raw = FALSE]
       ELSE UNCHANGED <<calls, disk>>
    /\ pc' = "log_end"
    /\ UNCHANGED <<sz, pl, pa, opts, ret, handlers, sigs>>

\* lines 358-359
LogEnd ==
    /\ pc = "log_end"
    /\ IF opts.data_log_name /= NULL
       THEN /\ calls' = Append(calls, Call("data_log_end", TRUE, 0))
            /\ disk' = [disk EXCEPT !.log = FALSE]
       ELSE UNCHANGED <<calls, disk>>
    /\ pc' = "disk_close"
    /\ UNCHANGED <<sz, pl, pa, opts, ret, handlers, sigs>>

\* lines 361-362
DiskClose ==
    /\ pc = "disk_close"
    /\ calls' = Append(calls, Call("disk_close", TRUE, 0))
    /\ disk' = disk_close(disk)
    /\ pc' = "done"
    /\ UNCHANGED <<sz, pl, pa, opts, ret, handlers, sigs>>

(***************************************************************************)
(* print_latency.  The latencies are uint32_t in the code; the values used *)
(* here stay far below 2^31, so no operation wraps.                        *)
(***************************************************************************)
\* line 100
height == 30

\* line 101
min_val == 0

\* the latency values (msec) buckets are made of
LatVals == {0, 27, 52, 1000000}

Bucket(mn, md, mx) ==
    [latency_min_msec |-> mn, latency_median_msec |-> md, latency_max_msec |-> mx]

Buckets == {Bucket(mn, md, mx) : mn \in LatVals, md \in LatVals, mx \in LatVals}

LatencyGraphs == UNION {[1..n -> Buckets] : n \in 0..MaxBuckets}

\* lines 102-107
RECURSIVE MaxVal(_, _)
MaxVal(graph, acc) ==
    IF graph = <<>> THEN acc
    ELSE MaxVal(Tail(graph),
                IF acc < Head(graph).latency_max_msec
                THEN Head(graph).latency_max_msec
                ELSE acc)

\* lines 109-113: the division is C's unsigned division
HeightInterval(max_val) ==
    LET q == (max_val - min_val + 1) \div (height - 3)
    IN  IF q = 0 THEN 1
        ELSE IF q > 10000 THEN 10000
        ELSE q

\* the bumps without the second look at max_height (lines 132-133)
Heights_NoCascade(b, hi) ==
    LET max0 == (b.latency_max_msec \div hi) + 1
        med0 == (b.latency_median_msec \div hi) + 1
        min0 == (b.latency_min_msec \div hi) + 1
        max1 == IF max0 = med0 THEN max0 + 1 ELSE max0
        med1 == IF med0 = min0 THEN med0 + 1 ELSE med0
    IN  [max_height |-> max1, med_height |-> med1, min_height |-> min0]

\* lines 123-134: the three heights of a bucket after the bumps
Heights(b, hi) ==
    LET max0 == (b.latency_max_msec \div hi) + 1
        med0 == (b.latency_median_msec \div hi) + 1
        min0 == (b.latency_min_msec \div hi) + 1
        max1 == IF max0 = med0 THEN max0 + 1 ELSE max0
        med1 == IF med0 = min0 THEN med0 + 1 ELSE med0
        max2 == IF med0 = min0 /\ max1 = med1 THEN max1 + 1 ELSE max1
    IN  [max_height |-> max2, med_height |-> med1, min_height |-> min0]

\* lines 136-146: the character printed for bucket b in row j
Cell(b, hi, j) ==
    LET h == Heights(b, hi)
    IN  IF h.max_height /= j /\ h.med_height /= j /\ h.min_height /= j THEN " "
        ELSE IF h.max_height = j THEN "^"
        ELSE IF h.med_height = j THEN "*"
        ELSE "_"

\* lines 116-149: the row of height j; label is the number printed in front
\* of every fifth row, -1 where the label is blank
Row(graph, hi, j) ==
    [j     |-> j,
     label |-> IF j % 5 = 0 THEN j * hi ELSE -1,
     cells |-> [i \in 1..Len(graph) |-> Cell(graph[i], hi, j)]]

\* lines 102-107
LatencyMaxVal ==
    /\ pl.pc = "max_val"
    /\ pl' = [pl EXCEPT !.pc = "interval", !.max_val = MaxVal(pl.latency_graph, 1)]
    /\ UNCHANGED <<sz, cliVars>>

\* lines 109-113
LatencyInterval ==
    /\ pl.pc = "interval"
    /\ pl' = [pl EXCEPT !.pc = "rows", !.height_interval = HeightInterval(pl.max_val)]
    /\ UNCHANGED <<sz, cliVars>>

\* lines 115-154: the rows from height down to 1, then the axis with one
\* dash per bucket
LatencyRows ==
    /\ pl.pc = "rows"
    /\ pl' = [pl EXCEPT
                !.pc = "done",
                !.out = [k \in 1..height |->
                           Row(pl.latency_graph, pl.height_interval, height + 1 - k)],
                !.axis = [i \in 1..Len(pl.latency_graph) |-> "-"]]
    /\ UNCHANGED <<sz, cliVars>>

(***************************************************************************)
(* The run of diskscan_cli.                                                *)
(***************************************************************************)
\* lines 329-331 and line 215
OptsInit ==
    [disk_path |-> NULL, verbose |-> 0, fix |-> 0, mode |-> "SCAN_MODE_SEQ",
     scan_size |-> 64 * 1024, data_log_name |-> NULL, data_log_raw_name |-> NULL,
     allowed_mount |-> "DISK_NOT_MOUNTED", start_sector |-> 0, end_sector |-> 0]

\* lines 212-213
PaInit ==
    [unknown |-> FALSE, allowed_mount |-> "DISK_NOT_MOUNTED", nonopts |-> <<>>,
     n |-> 0, zero_size |-> FALSE]

PlIdle == [pc |-> "idle", latency_graph |-> <<>>, max_val |-> 0,
           height_interval |-> 0, out |-> <<>>, axis |-> <<>>]

Init ==
    /\ sz = SzIdle
    /\ pl = PlIdle
    /\ pc = "parse_args"
    /\ pa = PaInit
    /\ opts = OptsInit
    /\ ret = -1
    /\ handlers = {}
    /\ disk = DiskInit
    /\ calls = <<>>
    /\ sigs = <<>>

Next ==
    \/ GetoptOption
    \/ GetoptNonOption
    \/ ParseArgsEnd
    \/ SigactionInt
    \/ SigactionTerm
    \/ DiskOpen
    \/ RawLogStart
    \/ LogStart
    \/ DiskScanCall
    \/ DiskScanIo
    \/ DiskScanStopped
    \/ DiskScanFinish
    \/ RawLogEnd
    \/ LogEnd
    \/ DiskClose
    \/ SignalHandled
    \/ SignalDefault

Spec == Init /\ [][Next]_vars

(***************************************************************************)
(* str_to_scan_size on every string of at most MaxLen characters.          *)
(***************************************************************************)
InitSize ==
    /\ sz \in {[SzIdle EXCEPT !.pc = "strtol", !.str = s] : s \in SizeStrings}
    /\ pl = PlIdle
    /\ pc = "done"
    /\ pa = PaInit
    /\ opts = OptsInit
    /\ ret = -1
    /\ handlers = {}
    /\ disk = DiskInit
    /\ calls = <<>>
    /\ sigs = <<>>

NextSize == SizeStrtol \/ SizeSuffix \/ SizeTruncate

SpecSize == InitSize /\ [][NextSize]_vars

(***************************************************************************)
(* print_latency on every graph of at most MaxBuckets buckets.             *)
(***************************************************************************)
InitLatency ==
    /\ sz = SzIdle
    /\ pl \in {[PlIdle EXCEPT !.pc = "max_val", !.latency_graph = g] :
                  g \in LatencyGraphs}
    /\ pc = "done"
    /\ pa = PaInit
    /\ opts = OptsInit
    /\ ret = -1
    /\ handlers = {}
    /\ disk = DiskInit
    /\ calls = <<>>
    /\ sigs = <<>>

NextLatency == LatencyMaxVal \/ LatencyInterval \/ LatencyRows

SpecLatency == InitLatency /\ [][NextLatency]_vars

(***************************************************************************)
(* Vocabulary of the properties.                                           *)
(***************************************************************************)
NCalls(fn) == Cardinality({i \in DOMAIN calls : calls[i].fn = fn})

Succeeded(fn) == \E i \in DOMAIN calls : calls[i].fn = fn /\ calls[i].ok

Failed(fn) == \E i \in DOMAIN calls : calls[i].fn = fn /\ ~calls[i].ok

RawConfigured == opts.data_log_raw_name /= NULL

LogConfigured == opts.data_log_name /= NULL

\* the library functions called after disk_scan returned, in order
AfterScan ==
    LET i == CHOOSE k \in DOMAIN calls : calls[k].fn = "disk_scan_return"
    IN  [k \in 1..(Len(calls) - i) |-> calls[i + k].fn]

\* what the teardown has to be for the configured logs
Teardown ==
    (IF RawConfigured THEN <<"data_log_raw_end">> ELSE <<>>)
    \o (IF LogConfigured THEN <<"data_log_end">> ELSE <<>>)
    \o <<"disk_close">>

\* a signal arrived while disk_scan was running
SignalDuringScan == \E i \in DOMAIN sigs : sigs[i] = "disk_scan"

\* a signal arrived after the handlers were installed and before disk_scan
\* was entered
SignalBeforeScan ==
    \E i \in DOMAIN sigs :
        sigs[i] \in {"disk_open", "raw_start", "log_start", "disk_scan_call"}

(***************************************************************************)
(* C1.  For every outcome of a run, disk_close is called exactly once if   *)
(* and only if disk_open succeeded, and each log's end function is called  *)
(* exactly once if and only if its start function succeeded.               *)
(* The code calls the end function of every configured log, whether its    *)
(* start function succeeded or not.                                        *)
(***************************************************************************)
C1_Lifecycle ==
    pc = "done" =>
        /\ (NCalls("disk_close") = 1) <=> Succeeded("disk_open")
        /\ (NCalls("data_log_raw_end") = 1) <=> Succeeded("data_log_raw_start")
        /\ (NCalls("data_log_end") = 1) <=> Succeeded("data_log_start")

(***************************************************************************)
(* C2.  When attaching a configured log fails after the device was opened, *)
(* disk_scan is not invoked, the device is closed before the return and    *)
(* diskscan_cli returns non-zero.                                          *)
(* The code goes on to disk_scan and returns its result.                   *)
(***************************************************************************)
C2_LogAttachFatal ==
    (Failed("data_log_raw_start") \/ Failed("data_log_start")) =>
        /\ NCalls("disk_scan") = 0
        /\ pc = "done" => (NCalls("disk_close") = 1 /\ ret /= 0)

MainFlow ==
    \/ GetoptOption
    \/ GetoptNonOption
    \/ ParseArgsEnd
    \/ SigactionInt
    \/ SigactionTerm
    \/ DiskOpen
    \/ RawLogStart
    \/ LogStart
    \/ DiskScanCall
    \/ DiskScanIo
    \/ DiskScanStopped
    \/ DiskScanFinish
    \/ RawLogEnd
    \/ LogEnd
    \/ DiskClose

FairSpec == Spec /\ WF_vars(MainFlow)

(***************************************************************************)
(* C4.  A stop request is safe and effective at any point after the signal *)
(* handlers are installed, also before the scan has started: a handled     *)
(* signal leaves the stop flag set, no later step resets the flag, a       *)
(* request made when the flag is already set changes nothing, a running     *)
(* scan that sees the flag does no further I/O and returns a failure, and  *)
(* the run then ends with the teardown (the configured logs ended, the     *)
(* device closed) whenever the device was opened.                          *)
(***************************************************************************)
C4_Handled == Len(sigs') = Len(sigs) + 1 /\ pc' /= "killed"

C4_Step ==
    /\ C4_Handled => disk'.stop
    /\ disk.stop => disk'.stop
    /\ (C4_Handled /\ disk.stop) =>
          <<pc, pa, opts, ret, handlers, disk, calls>>' =
          <<pc, pa, opts, ret, handlers, disk, calls>>
    /\ (disk.stop /\ pc = "disk_scan" /\ pc' /= pc) =>
          (pc' = "raw_end" /\ ret' = 1 /\ disk'.pos = disk.pos)
    /\ (disk.stop /\ pc /= "done" /\ pc' = "done" /\ Succeeded("disk_open")') =>
          /\ NCalls("disk_scan_return")' = 1
          /\ AfterScan' = Teardown'
          /\ (SignalBeforeScan \/ SignalDuringScan) =>
                (Failed("disk_scan_return")' /\ ret' = 1)

C5_Digits == {"0", "1", "2", "3", "4", "5", "6", "7", "8", "9"}

C5_Suffixes == {<<>>, <<"b">>, <<"B">>, <<"k">>, <<"K">>, <<"m">>, <<"M">>}

C5_Factor(suffix) ==
    IF suffix \in {<<"k">>, <<"K">>} THEN 1024
    ELSE IF suffix \in {<<"m">>, <<"M">>} THEN 1048576
    ELSE 1

\* a decimal numeral: digits only, without a leading zero unless it is "0"
C5_IsNumeral(s) ==
    /\ s /= <<>>
    /\ \A i \in DOMAIN s : s[i] \in C5_Digits
    /\ (Len(s) > 1 => s[1] /= "0")

\* the number a decimal numeral denotes, as a pair of limbs
RECURSIVE C5_Number(_)
C5_Number(s) ==
    IF s = <<>> THEN BigOfInt(0)
    ELSE BigMulAdd(C5_Number(SubSeq(s, 1, Len(s) - 1)), 10, DigitOf(s[Len(s)]))

\* the ways to read str as an optional minus sign, a numeral and a suffix
C5_Readings(str) ==
    {r \in [neg : BOOLEAN, n : 0..Len(str)] :
        /\ (r.neg => (str /= <<>> /\ str[1] = "-"))
        /\ LET from == IF r.neg THEN 2 ELSE 1
           IN  /\ C5_IsNumeral(SubSeq(str, from, r.n))
               /\ SubSeq(str, r.n + 1, Len(str)) \in C5_Suffixes}

C5_Holds(str, result) ==
    \A r \in C5_Readings(str) :
        LET n      == C5_Number(SubSeq(str, IF r.neg THEN 2 ELSE 1, r.n))
            value  == BigMul(n, C5_Factor(SubSeq(str, r.n + 1, Len(str))))
            small  == BigLeq(value, BigOfInt(MaxTransfer))
            nonpos == r.neg \/ BigIsZero(value)
        IN  /\ (~nonpos /\ small) => result = UnsignedToInt(value)
            /\ (nonpos \/ ~small) => result = 0

\* C5: what str_to_scan_size returned is what the claim says for its string
C5_SizeValue == sz.pc = "return" => C5_Holds(sz.str, sz.ret)

(***************************************************************************)
(* C6.  Whenever diskscan_cli reaches disk_scan, the transfer size passed  *)
(* is a positive multiple of 512 of at most 32 MiB; with any other size    *)
(* the device is neither opened nor scanned.                               *)
(* Nothing in the code looks at the size modulo 512.                       *)
(***************************************************************************)
C6_ValidTransfer(size) == size > 0 /\ size % 512 = 0 /\ size <= MaxTransfer

\* C6: the device is opened and scanned with a valid transfer size only
C6_TransferSize ==
    \A i \in DOMAIN calls :
        /\ calls[i].fn = "disk_open" => C6_ValidTransfer(opts.scan_size)
        /\ calls[i].fn = "disk_scan" => C6_ValidTransfer(calls[i].arg)

(***************************************************************************)
(* C8.  Any configuration failure in parse_args -- an unknown option, no   *)
(* device path, more than one device path, or a --size value that resolves *)
(* to zero -- makes diskscan_cli return 1 without calling disk_open.       *)
(* As stated it fails: a --size value that resolves to zero is forgotten   *)
(* when a later --size gives a valid size.                                 *)
(***************************************************************************)
C8_Fails(size_failure) ==
    (pc \notin {"parse_args", "killed"} /\
     (pa.unknown \/ Len(pa.nonopts) /= 1 \/ size_failure)) =>
        (pc = "done" /\ ret = 1 /\ NCalls("disk_open") = 0 /\ opts.disk_path = NULL)

Scaled == pl.pc \in {"rows", "done"}

\* the largest latency_max_msec of the graph, floored at 1
LargestMax ==
    LET all == {pl.latency_graph[i].latency_max_msec : i \in DOMAIN pl.latency_graph}
                \cup {1}
    IN  CHOOSE m \in all : \A x \in all : x <= m

Ordered(b) ==
    /\ b.latency_min_msec <= b.latency_median_msec
    /\ b.latency_median_msec <= b.latency_max_msec

\* the character printed in row j of the column of bucket i
Printed(i, j) == pl.out[height + 1 - j].cells[i]

(***************************************************************************)
(* C7.  For every bucket sequence height_interval is within [1, 10000] and *)
(* none of max_height, med_height, min_height after the bumps exceeds      *)
(* height + 3.                                                             *)
(* The quotient of line 109 is rounded down, and it is capped at 10000:    *)
(* the heights go far beyond height + 3.                                   *)
(***************************************************************************)
C7_ScaleInvariant ==
    Scaled =>
        /\ pl.height_interval \in 1..10000
        /\ \A i \in DOMAIN pl.latency_graph :
              LET h == Heights(pl.latency_graph[i], pl.height_interval)
              IN  /\ h.max_height <= height + 3
                  /\ h.med_height <= height + 3
                  /\ h.min_height <= height + 3

(***************************************************************************)
(* C9.  height_interval is ceil((max_val - 0 + 1) / (height - 3)) clamped  *)
(* to [1, 10000], max_val being the largest latency_max_msec of the        *)
(* buckets floored at 1.                                                   *)
(* The code divides with C's integer division, which rounds down.          *)
(***************************************************************************)
C9_Ceil(a, b) == (a + b - 1) \div b

C9_Clamp(x) == IF x < 1 THEN 1 ELSE IF x > 10000 THEN 10000 ELSE x

\* C9: the values print_latency computed are those of the formula
C9_CeilFormula ==
    Scaled =>
        /\ pl.max_val = LargestMax
        /\ pl.height_interval = C9_Clamp(C9_Ceil(pl.max_val - 0 + 1, height - 3))

(***************************************************************************)
(* C10.  For every bucket with min <= median <= max and every              *)
(* height_interval in [1, 10000] the heights after the bumps satisfy       *)
(* min_height < med_height < max_height, so that no two of '^', '*', '_'   *)
(* share a row: each row of the bucket's column shows the mark whose       *)
(* height it is.  A single bucket with min = med = max = 0 is printed as   *)
(* '_' in row 1, '*' in row 2 and '^' in row 3.                            *)
(***************************************************************************)
C10_Intervals == {1, 2, 3, 26, 27, 28, 53, 9999, 10000}

C10_Distinct(b, hi) ==
    LET h == Heights(b, hi)
    IN  h.min_height < h.med_height /\ h.med_height < h.max_height

\* C10: the heights are distinct, the column shows them, and the all-zero
\* bucket is drawn in rows 1, 2 and 3
C10_TieBreak ==
    pl.pc = "done" =>
        /\ \A i \in DOMAIN pl.latency_graph :
              LET b == pl.latency_graph[i]
                  h == Heights(b, pl.height_interval)
              IN  Ordered(b) =>
                    /\ \A hi \in C10_Intervals \cup {pl.height_interval} :
                          C10_Distinct(b, hi)
                    /\ \A j \in 1..height :
                          /\ Printed(i, j) = "^" <=> h.max_height = j
                          /\ Printed(i, j) = "*" <=> h.med_height = j
                          /\ Printed(i, j) = "_" <=> h.min_height = j
        /\ pl.latency_graph = <<Bucket(0, 0, 0)>> =>
              \A j \in 1..height :
                  Printed(1, j) = CASE j = 1 -> "_" [] j = 2 -> "*" [] j = 3 -> "^"
                                    [] OTHER -> " "

C10_Witness ==
    /\ pl.pc = "done"
    /\ pl.latency_graph = <<Bucket(0, 0, 0)>>
    /\ Printed(1, 1) = "_"
    /\ Printed(1, 2) = "*"
    /\ Printed(1, 3) = "^"

=============================================================================
